---------------------------- MODULE Spec2Model ----------------------------
(***************************************************************************)
(* carstorms.py: one run of main() over a storm feed, and the pure helpers  *)
(* it calls (knots_to_kmh, classify_storm, analyze_proximity).              *)
(*                                                                         *)
(* Representation                                                          *)
(*   - An optional value (Python None or a value) is a sequence of length  *)
(*     0 or 1: None == <<>>, Some(v) == <<v>>.                             *)
(*   - A text is a sequence of chunks; the chunk " " is whitespace, every   *)
(*     other chunk is a run of non-whitespace characters.                  *)
(*   - A coordinate is an integer number of hundredths of a degree, a      *)
(*     distance an integer number of hectometres (0.1 km), an instant an   *)
(*     integer number of half minutes since 2024-08-01T00:00:00Z.          *)
(***************************************************************************)
EXTENDS Integers, Sequences, FiniteSets, TLC

VARIABLES
    alert_radius_km,    \* config: alert radius, km
    wind_threshold_kt,  \* config: wind threshold, knots
    locations,          \* config: sequence of [name, coords = <<lat, lon>>], in dict order
    webhook_url,        \* config: optional URL
    pc,                 \* position of main(): fetch, loop, track, write, push, done;
                        \* of a lone analyze_proximity call: call, returned
    kml_root,           \* what fetch_active_storms_kml() returned
    idx,                \* 1-based index of the placemark the for loop is at
    output,             \* the report being assembled
    times,              \* main's / analyze_proximity's local `times`
    coords,             \* main's / analyze_proximity's local `coords`
    wind_kt,            \* main's local `wind_kt` (optional)
    locations_result,   \* result of the last analyze_proximity call
    last,               \* the kind of the last message the loop logged
    nFetch,             \* number of requests.get calls for the feed
    nWrite,             \* number of attempts to open/write OUTPUT_JSON
    nPush,              \* number of requests.post calls
    written,            \* optional: the report as dumped to OUTPUT_JSON
    pushed              \* optional: the report as accepted by the webhook

vars == <<alert_radius_km, wind_threshold_kt, locations, webhook_url, pc, kml_root,
          idx, output, times, coords, wind_kt, locations_result, last,
          nFetch, nWrite, nPush, written, pushed>>

-----------------------------------------------------------------------------
(* Bounds *)

\* longest feed (number of placemarks) a run is given
MaxFeed == 2
\* longest coords list, and longest times list, handed to analyze_proximity on its own
MaxCoords == 3
MaxTimes == 2

-----------------------------------------------------------------------------
(* Generic helpers *)

None == <<>>
Some(v) == <<v>>

Min(a, b) == IF a <= b THEN a ELSE b
Abs(a) == IF a < 0 THEN 0 - a ELSE a

\* Python's lst[:n]
Take(s, n) == SubSeq(s, 1, Min(n, Len(s)))

\* Python's round() of the non-negative rational n/d: nearest, halves to even
RoundHalfEven(n, d) ==
    LET q == n \div d
        r == n % d
    IN  IF 2 * r > d \/ (2 * r = d /\ q % 2 = 1) THEN q + 1 ELSE q

\* all sequences over S of length at most n
SeqsUpTo(S, n) == UNION {[1..k -> S] : k \in 0..n}

-----------------------------------------------------------------------------
(* Units and classification: knots_to_kmh, CATEGORY_SCALE, classify_storm *)

Cat5 == "Category 5 of 5: Catastrophic"
Cat4 == "Category 4 of 5: Very severe"
Cat3 == "Category 3 of 5: Severe"
Cat2 == "Category 2 of 5: Moderate"
Cat1 == "Category 1 of 5: Weak"
TropicalStorm == "Tropical Storm"
BelowTropicalStorm == "Below tropical storm threshold - not considered dangerous."

CATEGORY_SCALE ==
    << <<252, Cat5>>, <<209, Cat4>>, <<178, Cat3>>, <<154, Cat2>>, <<119, Cat1>>,
       <<63, TropicalStorm>> >>

\* variant of knots_to_kmh: int(knots * 1.852), the fraction cut off
knots_to_kmh_trunc(knots) == (knots * 1852) \div 1000

\* round(knots * 1.852)
knots_to_kmh(knots) == RoundHalfEven(knots * 1852, 1000)

RECURSIVE classify_from(_, _)
classify_from(k, wind_kmh) ==
    IF k > Len(CATEGORY_SCALE) THEN BelowTropicalStorm
    ELSE IF wind_kmh >= CATEGORY_SCALE[k][1] THEN CATEGORY_SCALE[k][2]
    ELSE classify_from(k + 1, wind_kmh)

\* the first row of CATEGORY_SCALE, in table order, whose threshold is met
classify_storm(wind_kmh) == classify_from(1, wind_kmh)

-----------------------------------------------------------------------------
(* Geometry: geopy's geodesic(a, b).km for a, b = <<lat, lon>>.  The library *)
(* is outside the repository; it is modelled by the local planar            *)
(* approximation around 18 N (111 km per degree of latitude, 106 km per     *)
(* degree of longitude), which is symmetric and 0 for identical points.     *)

\* the points the feed's tracks are drawn from, as parsed: <<lon, lat>>
PtA == <<-6473, 1833>>
PtB == <<-6500, 1850>>
PtC == <<-6573, 1933>>
PtD == <<-6473, 1933>>
PtE == <<-6473, 1733>>
TrackPoints == {PtA, PtB, PtC, PtD, PtE}

\* monitored locations, as configured: name and <<lat, lon>>
StJohn == [name |-> "St. John (USVI)", coords |-> <<1833, -6473>>]
StBarths == [name |-> "St. Barths", coords |-> <<1790, -6283>>]

LatLons == {<<p[2], p[1]>> : p \in TrackPoints} \cup {StJohn.coords, StBarths.coords}

ISqrt(n) == CHOOSE r \in 0..4000 : r * r <= n /\ (r + 1) * (r + 1) > n

PlanarHm(a, b) ==
    LET dy == (Abs(a[1] - b[1]) * 111) \div 10
        dx == (Abs(a[2] - b[2]) * 106) \div 10
    IN  ISqrt(dx * dx + dy * dy)

GeodesicTable == [a \in LatLons, b \in LatLons |-> PlanarHm(a, b)]

\* geodesic(a, b).km, in hectometres
geodesic(a, b) == GeodesicTable[a, b]

-----------------------------------------------------------------------------
(* analyze_proximity *)

\* timedelta(hours=4), in half minutes
AstShift == 4 * 120

\* (t - timedelta(hours=4)).strftime("%Y-%m-%d %H:%M AST"): the zone and the
\* seconds are dropped; the text is identified with its minute
strftime_ast(t) == t \div 2

\* variant of closer: `dist <= min_distance`, the last of equally close points wins
closer_or_equal(dist, min_distance) ==
    IF min_distance = None THEN TRUE ELSE dist <= min_distance[1]

\* `dist < min_distance`, min_distance starting at float('inf') (None here)
closer(dist, min_distance) ==
    IF min_distance = None THEN TRUE ELSE dist < min_distance[1]

\* `closest[1] <= alert_radius_km`
within_radius(dist, radius_km) == dist <= radius_km * 10

\* the inner for loop over zip(coords, times), from position k on;
\* closest is None or <<timestamp, dist>>
RECURSIVE scan_track(_, _, _, _, _, _)
scan_track(cs, ts, loc_coords, k, min_distance, closest) ==
    IF k > Len(cs) THEN closest
    ELSE LET dist == geodesic(<<cs[k][2], cs[k][1]>>, loc_coords)
         IN  IF closer(dist, min_distance)
             THEN scan_track(cs, ts, loc_coords, k + 1, Some(dist), Some(<<ts[k], dist>>))
             ELSE scan_track(cs, ts, loc_coords, k + 1, min_distance, closest)

\* the outer for loop over locations.items(), from position j on
RECURSIVE scan_locations(_, _, _, _, _)
scan_locations(cs, ts, locs, radius_km, j) ==
    IF j > Len(locs) THEN <<>>
    ELSE LET closest == scan_track(cs, ts, locs[j].coords, 1, None, None)
             rest == scan_locations(cs, ts, locs, radius_km, j + 1)
         IN  IF closest # None /\ within_radius(closest[1][2], radius_km)
             THEN << [location |-> locs[j].name,
                      expected_impact_time |-> strftime_ast(closest[1][1] - AstShift),
                      distance_km |-> RoundHalfEven(closest[1][2], 10)] >> \o rest
             ELSE rest

analyze_proximity(cs, ts, locs, radius_km) ==
    LET min_len == Min(Len(cs), Len(ts))
    IN  scan_locations(Take(cs, min_len), Take(ts, min_len), locs, radius_km, 1)

-----------------------------------------------------------------------------
(* Text conversions used by main() *)

\* str.strip(): leading and trailing whitespace chunks removed
RECURSIVE lstrip(_)
lstrip(text) == IF text # <<>> /\ Head(text) = " " THEN lstrip(Tail(text)) ELSE text

RECURSIVE rstrip(_)
rstrip(text) ==
    IF text # <<>> /\ text[Len(text)] = " " THEN rstrip(SubSeq(text, 1, Len(text) - 1))
    ELSE text

strip(text) == rstrip(lstrip(text))

\* str.split(): the non-whitespace chunks
IsToken(chunk) == chunk # " "
split(text) == SelectSeq(text, IsToken)

\* `"Maximum sustained winds" in line`
has_phrase(line) ==
    \E k \in 1..(Len(line) - 4) :
        /\ line[k] = "Maximum" /\ line[k + 1] = " "
        /\ line[k + 2] = "sustained" /\ line[k + 3] = " "
        /\ line[k + 4] \in {"winds", "winds:"}

\* int(token): defined on the decimal numerals, ValueError elsewhere
IntTable == ("130" :> 130) @@ ("60" :> 60) @@ ("40" :> 40)

\* float(component): defined on the decimal numbers, ValueError elsewhere;
\* the value in hundredths
FloatTable ==
    ("-64.73" :> -6473) @@ ("18.33" :> 1833) @@ ("-65.00" :> -6500) @@ ("18.50" :> 1850)
    @@ ("-65.73" :> -6573) @@ ("19.33" :> 1933) @@ ("17.33" :> 1733) @@ ("0" :> 0)

\* datetime.fromisoformat(text.replace("Z", "+00:00")): defined on ISO-8601
\* instants, ValueError elsewhere; the value in half minutes
IsoTable ==
    ("2024-08-01T02:00:30Z" :> 241) @@ ("2024-08-01T06:00:00Z" :> 720)
    @@ ("2024-08-01T12:00:00Z" :> 1440) @@ ("2024-08-01T18:00:00Z" :> 2160)

\* a conversion's outcome: it raised, or its value
Raised == [err |-> TRUE, val |-> <<>>]
Value(v) == [err |-> FALSE, val |-> v]

-----------------------------------------------------------------------------
(* main(): decoding one placemark.                                          *)
(* A placemark is [name, description, coordinates, time_span, whens]:        *)
(*   name         optional element; its text is a chunk sequence (<<>>: none)*)
(*   description  optional element with optional text, a sequence of lines   *)
(*   coordinates  optional element with optional text, given as its          *)
(*                whitespace-separated entries, each as its comma-separated  *)
(*                components                                                 *)
(*   time_span    optional element [begin, end], each an optional element    *)
(*                with optional text                                         *)
(*   whens        the <when> elements, each an optional text                 *)

\* `name_tag is None or not name_tag.text`
name_rejected(p) == IF p.name = None THEN TRUE ELSE p.name[1] = <<>>

\* one timestamp element's text to an instant
parse_time(text) ==
    IF text # None /\ text[1] \in DOMAIN IsoTable THEN Value(IsoTable[text[1]]) ELSE Raised

parse_times(texts) ==
    IF \E k \in 1..Len(texts) : parse_time(texts[k]).err THEN Raised
    ELSE Value([k \in 1..Len(texts) |-> parse_time(texts[k]).val])

\* lines 192-205: the begin/end pair of a TimeSpan, else (no TimeSpan) the <when> list
resolve_times(p) ==
    IF p.time_span # None
    THEN IF p.time_span[1].begin # None /\ p.time_span[1].end # None
         THEN parse_times(<<p.time_span[1].begin[1], p.time_span[1].end[1]>>)
         ELSE Value(<<>>)
    ELSE parse_times(p.whens)

\* tuple(map(float, c.split(',')[:2]))
parse_entry(entry) ==
    LET two == Take(entry, 2)
    IN  IF \E k \in 1..Len(two) : two[k] \notin DOMAIN FloatTable THEN Raised
        ELSE Value([k \in 1..Len(two) |-> FloatTable[two[k]]])

\* lines 207-208: coord_text.text.strip().split(), each entry parsed
parse_coords(p) ==
    IF p.coordinates = None \/ p.coordinates[1] = None THEN Raised
    ELSE LET entries == p.coordinates[1][1]
         IN  IF \E k \in 1..Len(entries) : parse_entry(entries[k]).err THEN Raised
             ELSE Value([k \in 1..Len(entries) |-> parse_entry(entries[k]).val])

\* line 190 and 216: description_text.splitlines() raises on an element without text
description_raises(p) == IF p.description = None THEN FALSE ELSE p.description[1] = None

description_lines(p) == IF p.description = None THEN <<>> ELSE p.description[1][1]

\* int(line.split()[3])
wind_of_line(line) ==
    LET tokens == split(line)
    IN  IF Len(tokens) >= 4 /\ tokens[4] \in DOMAIN IntTable
        THEN Value(IntTable[tokens[4]]) ELSE Raised

\* variant of scan_wind: the scan ends at the first line that has the phrase,
\* parsed or not
RECURSIVE scan_wind_first_only(_, _)
scan_wind_first_only(lines, k) ==
    IF k > Len(lines) THEN None
    ELSE IF has_phrase(lines[k])
         THEN IF wind_of_line(lines[k]).err THEN None ELSE Some(wind_of_line(lines[k]).val)
         ELSE scan_wind_first_only(lines, k + 1)

\* lines 215-223: break at the first line that has the phrase and parses,
\* continue past one that has it and does not parse
RECURSIVE scan_wind(_, _)
scan_wind(lines, k) ==
    IF k > Len(lines) THEN None
    ELSE IF has_phrase(lines[k]) /\ ~wind_of_line(lines[k]).err
         THEN Some(wind_of_line(lines[k]).val)
         ELSE scan_wind(lines, k + 1)

\* variant of extract_wind
extract_wind_first_only(lines) == scan_wind_first_only(lines, 1)

\* lines 215-223 on the lines of the description
extract_wind(lines) == scan_wind(lines, 1)

\* variant of below_threshold: `wind_kt <= wind_threshold_kt`
below_threshold_exclusive(wind, threshold) ==
    IF wind = None THEN TRUE ELSE wind[1] <= threshold

\* line 224: `wind_kt is None or wind_kt < wind_threshold_kt`
below_threshold(wind, threshold) ==
    IF wind = None THEN TRUE ELSE wind[1] < threshold

\* line 129: unpacking `(lon, lat)` raises on a tuple that is not a pair; the
\* loop runs once per location over the truncated track
analysis_raises(cs, ts, locs) ==
    locs # <<>> /\ \E k \in 1..Min(Len(cs), Len(ts)) : Len(cs[k]) # 2

-----------------------------------------------------------------------------
(* The feeds a run is given: placemarks that differ from the record of       *)
(* test_main_with_mock_data in one element each.                             *)

Line130 == <<"Maximum", " ", "sustained", " ", "winds:", " ", "130", " ", "knots">>
Line60 == <<"Maximum", " ", "sustained", " ", "winds:", " ", "60", " ", "knots">>
Line40 == <<"Maximum", " ", "sustained", " ", "winds:", " ", "40", " ", "knots">>
\* three tokens only: line.split()[3] raises IndexError
LineNoValue == <<"Maximum", " ", "sustained", " ", "winds">>
\* the 4th token is a word: int() raises ValueError
LineWords == <<"Maximum", " ", "sustained", " ", "winds", " ", "near", " ", "130", " ", "knots">>
\* no phrase, but an integer 4th token
LineOther == <<"Present", " ", "movement:", " ", "NW", " ", "40", " ", "knots">>

EntryA == <<"-64.73", "18.33", "0">>
EntryB == <<"-65.00", "18.50", "0">>
EntryC == <<"-65.73", "19.33", "0">>
EntryD == <<"-64.73", "19.33">>
EntryE == <<"-64.73", "17.33">>

T02 == Some("2024-08-01T02:00:30Z")
T06 == Some("2024-08-01T06:00:00Z")
T12 == Some("2024-08-01T12:00:00Z")
T18 == Some("2024-08-01T18:00:00Z")

HurricaneTest ==
    [name |-> Some(<<"Hurricane", " ", "Test">>),
     description |-> Some(Some(<<Line130>>)),
     coordinates |-> Some(Some(<<EntryA, EntryB>>)),
     time_span |-> None,
     whens |-> <<T12, T18>>]

Names ==
    { None,                              \* no <name>
      Some(<<>>),                        \* <name/>
      Some(<<" ", " ">>),                \* whitespace only
      Some(<<" ", "Ana", " ">>) }

Descriptions ==
    { None,                              \* no <description>
      Some(None),                        \* <description/>
      Some(Some(<<Line40>>)),
      Some(Some(<<Line60>>)),
      Some(Some(<<LineNoValue>>)),
      Some(Some(<<LineOther, LineWords, Line130>>)),
      Some(Some(<<Line130, Line40>>)) }

Coordinates ==
    { None,                              \* no <coordinates>
      Some(Some(<< <<"abc", "18.33">>, EntryB >>)),
      Some(Some(<< <<"-64.73">>, EntryB >>)),
      Some(Some(<<EntryB>>)),
      Some(Some(<< <<"-64.73", "18.33", "x">>, EntryC, EntryB >>)),
      Some(Some(<<EntryC, EntryC>>)),
      Some(Some(<<EntryD, EntryE>>)) }

TimeSpans ==
    { Some([begin |-> Some(T06), end |-> Some(T18)]),
      Some([begin |-> None, end |-> Some(T18)]),
      Some([begin |-> Some(T06), end |-> None]) }

Whens ==
    { <<>>,
      <<T12, Some("noon")>>,
      <<T02, T12, T18>> }

Placemarks ==
    {HurricaneTest}
    \cup {[HurricaneTest EXCEPT !.name = x] : x \in Names}
    \cup {[HurricaneTest EXCEPT !.description = x] : x \in Descriptions}
    \cup {[HurricaneTest EXCEPT !.coordinates = x] : x \in Coordinates}
    \cup {[HurricaneTest EXCEPT !.time_span = x] : x \in TimeSpans}
    \cup {[HurricaneTest EXCEPT !.whens = x] : x \in Whens}

\* what fetch_active_storms_kml() can return: None, a root element without
\* children, or a root whose one Document child holds the placemarks
NoRoot == [parsed |-> FALSE, children |-> 0, placemarks |-> <<>>]
EmptyRoot == [parsed |-> TRUE, children |-> 0, placemarks |-> <<>>]
Roots ==
    {NoRoot, EmptyRoot}
    \cup {[parsed |-> TRUE, children |-> 1, placemarks |-> f] :
            f \in SeqsUpTo(Placemarks, MaxFeed)}

\* `not kml_root`: None, or an Element with no children
root_is_falsy(root) == IF root.parsed THEN root.children = 0 ELSE TRUE

-----------------------------------------------------------------------------
(* Configurations *)

LocationChoices ==
    {<<>>, <<StJohn>>, <<StBarths>>, <<StJohn, StBarths>>, <<StBarths, StJohn>>}
RadiusChoices == {0, 111, 150}
ThresholdChoices == {60}
WebhookChoices == {None, Some("https://hooks.example/carstorms")}

MsgNone == [count |-> 0, text |-> "No active dangerous storms near monitored locations."]
MsgFailed == [count |-> 0, text |-> "Failed to fetch or parse active storm data."]
MsgFound(n) == [count |-> n, text |-> "active dangerous storm(s) found."]

-----------------------------------------------------------------------------
(* main(): the state after the configuration is loaded and `output` is built *)
(* (lines 147-172)                                                           *)

NewOutput == [status |-> "ok", message |-> MsgNone, storms |-> <<>>]

Init ==
    /\ alert_radius_km = 150
    /\ wind_threshold_kt \in ThresholdChoices
    /\ locations \in {<<>>, <<StJohn>>, <<StJohn, StBarths>>}
    /\ webhook_url \in WebhookChoices
    /\ pc = "fetch"
    /\ kml_root = NoRoot
    /\ idx = 0
    /\ output = NewOutput
    /\ times = <<>>
    /\ coords = <<>>
    /\ wind_kt = None
    /\ locations_result = <<>>
    /\ last = "start"
    /\ nFetch = 0
    /\ nWrite = 0
    /\ nPush = 0
    /\ written = None
    /\ pushed = None

config == <<alert_radius_km, wind_threshold_kt, locations, webhook_url>>
sinks == <<nWrite, nPush, written, pushed>>
locals == <<times, coords, wind_kt, locations_result>>

\* the placemark the for loop is at
Cur == kml_root.placemarks[idx]

\* lines 174-182: the feed is fetched once; `if not kml_root`
Fetch ==
    /\ pc = "fetch"
    /\ nFetch' = nFetch + 1
    /\ \E root \in Roots :
        /\ kml_root' = root
        /\ IF root_is_falsy(root)
           THEN /\ output' = [output EXCEPT !.status = "error", !.message = MsgFailed]
                /\ pc' = "write"
                /\ idx' = idx
           ELSE /\ output' = output
                /\ pc' = "loop"
                /\ idx' = 1
    /\ UNCHANGED <<config, sinks, locals, last>>

\* lines 185-187: a placemark without a name element or name text is passed over
SkipUnnamed ==
    /\ pc = "loop" /\ idx <= Len(kml_root.placemarks)
    /\ name_rejected(Cur)
    /\ idx' = idx + 1
    /\ last' = "unnamed"
    /\ UNCHANGED <<config, sinks, locals, pc, kml_root, output, nFetch>>

\* lines 192-205 raising (a timestamp without text or not ISO-8601), caught at 242-244
TimestampError ==
    /\ pc = "loop" /\ idx <= Len(kml_root.placemarks)
    /\ ~name_rejected(Cur)
    /\ resolve_times(Cur).err
    /\ idx' = idx + 1
    /\ last' = "timestamp error"
    /\ UNCHANGED <<config, sinks, locals, pc, kml_root, output, nFetch>>

\* lines 188-205: the name is kept and `times` resolved
ResolveTimestamps ==
    /\ pc = "loop" /\ idx <= Len(kml_root.placemarks)
    /\ ~name_rejected(Cur)
    /\ ~resolve_times(Cur).err
    /\ times' = resolve_times(Cur).val
    /\ pc' = "track"
    /\ last' = "times"
    /\ UNCHANGED <<config, sinks, coords, wind_kt, locations_result, kml_root, idx,
                   output, nFetch>>

\* lines 206-214: the coordinates do not parse; main returns
CoordinateError ==
    /\ pc = "track"
    /\ parse_coords(Cur).err
    /\ pc' = "done"
    /\ last' = "coordinate error"
    /\ UNCHANGED <<config, sinks, locals, kml_root, idx, output, nFetch>>

\* lines 209-211: both lists cut to the shorter one
TrackLen == Min(Len(parse_coords(Cur).val), Len(times))
TrackCoords == Take(parse_coords(Cur).val, TrackLen)
TrackTimes == Take(times, TrackLen)
CurWind == extract_wind(description_lines(Cur))
CurResult == analyze_proximity(TrackCoords, TrackTimes, locations, alert_radius_km)

\* line 216 raising on a description element without text, caught at 242-244
DescriptionError ==
    /\ pc = "track"
    /\ ~parse_coords(Cur).err
    /\ description_raises(Cur)
    /\ coords' = TrackCoords
    /\ times' = TrackTimes
    /\ pc' = "loop"
    /\ idx' = idx + 1
    /\ last' = "description error"
    /\ UNCHANGED <<config, sinks, wind_kt, locations_result, kml_root, output, nFetch>>

\* lines 215-226: no wind speed, or one below the threshold
BelowThreshold ==
    /\ pc = "track"
    /\ ~parse_coords(Cur).err
    /\ ~description_raises(Cur)
    /\ below_threshold(CurWind, wind_threshold_kt)
    /\ coords' = TrackCoords
    /\ times' = TrackTimes
    /\ wind_kt' = CurWind
    /\ pc' = "loop"
    /\ idx' = idx + 1
    /\ last' = "below threshold"
    /\ UNCHANGED <<config, sinks, locations_result, kml_root, output, nFetch>>

\* line 229 raising inside analyze_proximity, caught at 242-244
AnalysisError ==
    /\ pc = "track"
    /\ ~parse_coords(Cur).err
    /\ ~description_raises(Cur)
    /\ ~below_threshold(CurWind, wind_threshold_kt)
    /\ analysis_raises(TrackCoords, TrackTimes, locations)
    /\ coords' = TrackCoords
    /\ times' = TrackTimes
    /\ wind_kt' = CurWind
    /\ pc' = "loop"
    /\ idx' = idx + 1
    /\ last' = "analysis error"
    /\ UNCHANGED <<config, sinks, locations_result, kml_root, output, nFetch>>

\* lines 231-233: locations are monitored and none is within the radius
NoLocationAffected ==
    /\ pc = "track"
    /\ ~parse_coords(Cur).err
    /\ ~description_raises(Cur)
    /\ ~below_threshold(CurWind, wind_threshold_kt)
    /\ ~analysis_raises(TrackCoords, TrackTimes, locations)
    /\ locations # <<>> /\ CurResult = <<>>
    /\ coords' = TrackCoords
    /\ times' = TrackTimes
    /\ wind_kt' = CurWind
    /\ locations_result' = CurResult
    /\ pc' = "loop"
    /\ idx' = idx + 1
    /\ last' = "no location"
    /\ UNCHANGED <<config, sinks, kml_root, output, nFetch>>

\* lines 227-241: the storm is appended to output["storms"]
AppendStorm ==
    /\ pc = "track"
    /\ ~parse_coords(Cur).err
    /\ ~description_raises(Cur)
    /\ ~below_threshold(CurWind, wind_threshold_kt)
    /\ ~analysis_raises(TrackCoords, TrackTimes, locations)
    /\ ~(locations # <<>> /\ CurResult = <<>>)
    /\ coords' = TrackCoords
    /\ times' = TrackTimes
    /\ wind_kt' = CurWind
    /\ locations_result' = CurResult
    /\ output' = [output EXCEPT !.storms = Append(@,
                    [name |-> strip(Cur.name[1]),
                     wind_kt |-> CurWind[1],
                     wind_kmh |-> knots_to_kmh(CurWind[1]),
                     category_description |-> classify_storm(knots_to_kmh(CurWind[1])),
                     locations |-> CurResult])]
    /\ pc' = "loop"
    /\ idx' = idx + 1
    /\ last' = "added"
    /\ UNCHANGED <<config, sinks, kml_root, nFetch>>

\* lines 245-246: the loop is over; the message counts the storms
EndLoop ==
    /\ pc = "loop" /\ idx > Len(kml_root.placemarks)
    /\ output' = IF output.storms # <<>>
                 THEN [output EXCEPT !.message = MsgFound(Len(output.storms))]
                 ELSE output
    /\ pc' = "write"
    /\ UNCHANGED <<config, sinks, locals, kml_root, idx, last, nFetch>>

\* lines 247-251: the report is dumped to OUTPUT_JSON
WriteReport ==
    /\ pc = "write"
    /\ nWrite' = nWrite + 1
    /\ written' = Some(output)
    /\ pc' = IF webhook_url # None THEN "push" ELSE "done"
    /\ UNCHANGED <<config, locals, kml_root, idx, output, last, nFetch, nPush, pushed>>

\* lines 249-250 raising (open or json.dump), caught at 261-262
WriteFails ==
    /\ pc = "write"
    /\ nWrite' = nWrite + 1
    /\ pc' = "done"
    /\ UNCHANGED <<config, locals, kml_root, idx, output, last, nFetch, nPush, written,
                   pushed>>

\* lines 252-258: the report is posted to the webhook
PostWebhook ==
    /\ pc = "push"
    /\ nPush' = nPush + 1
    /\ pushed' = Some(output)
    /\ pc' = "done"
    /\ UNCHANGED <<config, locals, kml_root, idx, output, last, nFetch, nWrite, written>>

\* line 256 raising, caught at 259-260
PostFails ==
    /\ pc = "push"
    /\ nPush' = nPush + 1
    /\ pc' = "done"
    /\ UNCHANGED <<config, locals, kml_root, idx, output, last, nFetch, nWrite, written,
                   pushed>>

Next ==
    \/ Fetch
    \/ SkipUnnamed
    \/ TimestampError
    \/ ResolveTimestamps
    \/ CoordinateError
    \/ DescriptionError
    \/ BelowThreshold
    \/ AnalysisError
    \/ NoLocationAffected
    \/ AppendStorm
    \/ EndLoop
    \/ WriteReport
    \/ WriteFails
    \/ PostWebhook
    \/ PostFails

Spec == Init /\ [][Next]_vars

-----------------------------------------------------------------------------
(* analyze_proximity called on its own, on any two lists *)

TimeValues == {IsoTable[t] : t \in DOMAIN IsoTable} \ {720}

InitProx ==
    /\ alert_radius_km \in RadiusChoices
    /\ wind_threshold_kt \in ThresholdChoices
    /\ locations \in LocationChoices
    /\ webhook_url = None
    /\ pc = "call"
    /\ kml_root = NoRoot
    /\ idx = 0
    /\ output = NewOutput
    /\ times \in SeqsUpTo(TimeValues, MaxTimes)
    /\ coords \in SeqsUpTo(TrackPoints, MaxCoords)
    /\ wind_kt = None
    /\ locations_result = <<>>
    /\ last = "start"
    /\ nFetch = 0
    /\ nWrite = 0
    /\ nPush = 0
    /\ written = None
    /\ pushed = None

CallAnalyzeProximity ==
    /\ pc = "call"
    /\ locations_result' = analyze_proximity(coords, times, locations, alert_radius_km)
    /\ pc' = "returned"
    /\ UNCHANGED <<config, sinks, times, coords, wind_kt, kml_root, idx, output, last,
                   nFetch>>

SpecProx == InitProx /\ [][CallAnalyzeProximity]_vars

-----------------------------------------------------------------------------
(* Properties: what the report is said to contain, stated over the feed      *)

Feed == kml_root.placemarks

\* main is past the loop with a report in hand
Reported == pc \in {"write", "push"} \/ (pc = "done" /\ last # "coordinate error")

\* the placemark the loop handled last
Prev == Feed[idx - 1]

\* processing p raises nowhere and p is not passed over for its name
DecodesCleanly(p) ==
    /\ ~name_rejected(p)
    /\ ~resolve_times(p).err
    /\ ~parse_coords(p).err
    /\ ~description_raises(p)
    /\ \A k \in 1..Len(parse_coords(p).val) : Len(parse_coords(p).val[k]) = 2

\* processing p raises somewhere
DecodeFails(p) ==
    /\ ~name_rejected(p)
    /\ \/ resolve_times(p).err
       \/ parse_coords(p).err
       \/ description_raises(p)

\* the decoded track of p: its length, and the distance of point k to a location
TrackLenOf(p) == Min(Len(parse_coords(p).val), Len(resolve_times(p).val))
PointDist(p, k, loc) ==
    geodesic(<<parse_coords(p).val[k][2], parse_coords(p).val[k][1]>>, loc.coords)
Near(p, loc) == \E k \in 1..TrackLenOf(p) : PointDist(p, k, loc) <= alert_radius_km * 10

WindOf(p) == extract_wind(description_lines(p))

IsNear(pair) == Near(pair[1], pair[2])
NearLocations(p) ==
    LET pairs == [j \in 1..Len(locations) |-> <<p, locations[j]>>]
        near == SelectSeq(pairs, IsNear)
    IN  [j \in 1..Len(near) |-> near[j][2].name]

\* wind present and at least the threshold; no locations monitored or one in range
Qualifies(p) ==
    /\ WindOf(p) # None
    /\ WindOf(p)[1] >= wind_threshold_kt
    /\ locations = <<>> \/ \E j \in 1..Len(locations) : Near(p, locations[j])

\* a storm entry and a placemark, reduced to name, wind and names of the locations
StormKey(storm) ==
    [name |-> storm.name, wind_kt |-> storm.wind_kt,
     locations |-> [j \in 1..Len(storm.locations) |-> storm.locations[j].location]]
PlacemarkKey(p) ==
    [name |-> strip(p.name[1]), wind_kt |-> WindOf(p)[1], locations |-> NearLocations(p)]

\* C1: when decoding a record fails, the record is skipped and every later
\* record is still processed: each later record that qualifies is in the report
C1_FailureIsolated ==
    pc = "done" =>
        \A i \in 1..Len(Feed) : \A j \in (i + 1)..Len(Feed) :
            (DecodeFails(Feed[i]) /\ DecodesCleanly(Feed[j]) /\ Qualifies(Feed[j]))
            => /\ idx > j
               /\ \E k \in 1..Len(output.storms) :
                      StormKey(output.storms[k]) = PlacemarkKey(Feed[j])

\* C2: a finished run has attempted the write of the report exactly once, the
\* fetch exactly once and the push at most once
C2_EachAttemptedOnce ==
    pc = "done" => nWrite = 1 /\ nFetch = 1 /\ nPush <= 1

\* C3: with a webhook configured the push is attempted whether the write
\* succeeded or failed, and a push failure leaves the written report in place
C3_SinksIndependent ==
    (pc = "done" /\ webhook_url # None /\ nWrite = 1) =>
        /\ nPush = 1
        /\ (nPush = 1 /\ pushed = None) => written = Some(output)

\* C4: status is "error" exactly when no document root was obtained, then with
\* no storms and the failure message; any parsed root gives "ok"
C4_ErrorIffNoRoot ==
    Reported =>
        /\ (output.status = "error") <=> ~kml_root.parsed
        /\ kml_root.parsed => output.status = "ok"
        /\ output.status = "error" => output.storms = <<>> /\ output.message = MsgFailed

\* C5: when every record of the feed decodes without error, the storm list is
\* the subsequence, in feed order, of the records that qualify, each with the
\* names of the locations in range (none when no location is monitored)
C5_StormsAreQualifying ==
    (Reported /\ ~root_is_falsy(kml_root) /\ \A i \in 1..Len(Feed) : DecodesCleanly(Feed[i]))
    => LET expected == SelectSeq(Feed, Qualifies)
       IN  /\ Len(output.storms) = Len(expected)
           /\ \A k \in 1..Len(expected) :
                  StormKey(output.storms[k]) = PlacemarkKey(expected[k])
           /\ locations = <<>> =>
                  \A k \in 1..Len(output.storms) : output.storms[k].locations = <<>>

\* a two-record feed, both decoded, one kept and one filtered out by the
\* locations monitored
C5_Witness ==
    /\ pc = "done" /\ Reported
    /\ Len(Feed) = 2
    /\ \A i \in 1..Len(Feed) : DecodesCleanly(Feed[i])
    /\ locations # <<>>
    /\ ~Qualifies(Feed[1]) /\ Qualifies(Feed[2])
    /\ WindOf(Feed[1]) # None /\ WindOf(Feed[1])[1] >= wind_threshold_kt
    /\ Len(output.storms) = 1

\* C7: the timestamp list is [begin, end] when the record has both, and in
\* every other case the record's full per-point list
ClaimedTimes(p) ==
    IF p.time_span # None /\ p.time_span[1].begin # None /\ p.time_span[1].end # None
    THEN parse_times(<<p.time_span[1].begin[1], p.time_span[1].end[1]>>).val
    ELSE parse_times(p.whens).val

C7_TimestampsResolved ==
    pc = "track" => times = ClaimedTimes(Cur)

\* the loop got as far as the wind speed of the record it handled last
WindReached == last \in {"below threshold", "analysis error", "no location", "added"}

\* a line that has the phrase and an integer as its 4th token
Parsable(line) ==
    has_phrase(line) /\ Len(split(line)) >= 4 /\ split(line)[4] \in DOMAIN IntTable

\* C8 (as claimed): the first line that has the phrase decides alone
ClaimedWind(lines) ==
    IF \E k \in 1..Len(lines) : has_phrase(lines[k])
    THEN LET f == CHOOSE k \in 1..Len(lines) :
                      has_phrase(lines[k]) /\ \A m \in 1..(k - 1) : ~has_phrase(lines[m])
         IN  IF Parsable(lines[f]) THEN Some(IntTable[split(lines[f])[4]]) ELSE None
    ELSE None

C8_FirstPhraseLineDecides ==
    WindReached => wind_kt = ClaimedWind(description_lines(Prev))

\* C8 (amended): the first line that has the phrase and an integer 4th token
\* decides; with no such line the wind speed is absent, which is no error
AmendedWind(lines) ==
    IF \E k \in 1..Len(lines) : Parsable(lines[k])
    THEN LET f == CHOOSE k \in 1..Len(lines) :
                      Parsable(lines[k]) /\ \A m \in 1..(k - 1) : ~Parsable(lines[m])
         IN  Some(IntTable[split(lines[f])[4]])
    ELSE None

C8_FirstParsableLineDecides ==
    /\ WindReached => wind_kt = AmendedWind(description_lines(Prev))
    /\ (pc = "loop" /\ idx > 1 /\ DecodesCleanly(Prev)
            /\ AmendedWind(description_lines(Prev)) = None)
       => last = "below threshold"

\* a phrase line that does not parse, followed by one that does
C8_Witness ==
    /\ last = "added"
    /\ wind_kt = Some(130)
    /\ \E k \in 1..Len(description_lines(Prev)) :
           /\ has_phrase(description_lines(Prev)[k])
           /\ ~Parsable(description_lines(Prev)[k])
           /\ \E m \in (k + 1)..Len(description_lines(Prev)) :
                  Parsable(description_lines(Prev)[m])

\* the end-to-end scenario: the one record of the test feed, threshold 60 kt,
\* radius 150 km, a monitored location in range
Scenario ==
    /\ ~root_is_falsy(kml_root)
    /\ Feed = <<HurricaneTest>>
    /\ wind_threshold_kt = 60
    /\ alert_radius_km = 150
    /\ \E j \in 1..Len(locations) : locations[j] = StJohn

ScenarioStorm(category) ==
    /\ Len(output.storms) = 1
    /\ output.storms[1].name = <<"Hurricane", " ", "Test">>
    /\ output.storms[1].wind_kt = 130
    /\ output.storms[1].wind_kmh = 241
    /\ output.storms[1].category_description = category
    /\ \E j \in 1..Len(output.storms[1].locations) :
           output.storms[1].locations[j].location = StJohn.name

\* C9 (as claimed): the scenario's one storm is described as Category 1
C9_ScenarioCategory1 ==
    (Scenario /\ Reported) => ScenarioStorm(Cat1)

\* C9 (amended): the scenario's one storm, 130 kt = 241 km/h, is described as
\* Category 4 (241 >= 209)
C9_ScenarioCategory4 ==
    (Scenario /\ Reported) => ScenarioStorm(Cat4)

C9_Witness ==
    /\ Scenario /\ pc = "done" /\ Reported
    /\ written = Some(output)
    /\ Len(output.storms) = 1

\* C10: every storm entry of the report has a non-empty name
C10_NamesNonEmpty ==
    \A k \in 1..Len(output.storms) : output.storms[k].name # <<>>

-----------------------------------------------------------------------------
(* Properties of analyze_proximity called on its own                         *)

\* the number of track points used, and the distance of point k to location j
UsedLen == Min(Len(coords), Len(times))
DistTo(j, k) == geodesic(<<coords[k][2], coords[k][1]>>, locations[j].coords)

\* the least distance of location j to the used points (UsedLen > 0)
MinDistTo(j) ==
    CHOOSE d \in {DistTo(j, k) : k \in 1..UsedLen} : \A k \in 1..UsedLen : d <= DistTo(j, k)

\* the earliest used point at the least distance
FirstClosest(j) ==
    CHOOSE k \in 1..UsedLen :
        DistTo(j, k) = MinDistTo(j) /\ \A m \in 1..(k - 1) : DistTo(j, m) # MinDistTo(j)

\* the locations that get an entry, and the place of location j's entry
Reportable == {j \in 1..Len(locations) : UsedLen > 0 /\ MinDistTo(j) <= alert_radius_km * 10}
PlaceOf(j) == Cardinality({i \in Reportable : i <= j})

\* C6: over the first min(len(coords), len(times)) points, exactly the locations
\* whose least distance is <= the radius get an entry, one each and in order,
\* with that distance (in whole km) and the time of the earliest closest point
\* less 4 hours; no points, no entries; a location on a track point is reported
C6_ProximityEntries ==
    pc = "returned" =>
        /\ Len(locations_result) = Cardinality(Reportable)
        /\ \A j \in Reportable :
               locations_result[PlaceOf(j)] =
                   [location |-> locations[j].name,
                    expected_impact_time |-> (times[FirstClosest(j)] - 4 * 60 * 2) \div 2,
                    distance_km |-> RoundHalfEven(MinDistTo(j), 10)]
        /\ UsedLen = 0 => locations_result = <<>>
        /\ \A j \in 1..Len(locations) : \A k \in 1..UsedLen :
               <<coords[k][2], coords[k][1]>> = locations[j].coords
               => \E r \in 1..Len(locations_result) :
                      /\ locations_result[r].location = locations[j].name
                      /\ locations_result[r].distance_km = 0

\* lists of different lengths, and a location with two used points equally
\* close, the later of them at another time
C6_Witness ==
    /\ pc = "returned"
    /\ Len(coords) > Len(times)
    /\ \E j \in Reportable : \E k \in (FirstClosest(j) + 1)..UsedLen :
           /\ DistTo(j, k) = MinDistTo(j)
           /\ times[k] # times[FirstClosest(j)]
    /\ Len(locations_result) < Len(locations)

=============================================================================
